---- MODULE Spec2Model ----
(***************************************************************************)
(* Expression-node algebra of hsm: operator metadata, the node constructor *)
(* (Operator.__call__ of hsm.algebra.operations and op() of hsm.arith.tree)*)
(* with its validation, evaluation by left fold, and rendering to text.    *)
(*                                                                         *)
(* A node is a record [kind, operator, operands, value, chained]:          *)
(*   kind "A"  atomic operand (value is the symbol name or the literal),   *)
(*   kind "O"  atomic operation, kind "CO" compound operation,             *)
(*   kind "Err" the exception a constructor raised (value is the message). *)
(* A rendering is the sequence of its tokens, joined into the string.     *)
(***************************************************************************)
EXTENDS Integers, Sequences, FiniteSets, TLC

VARIABLES regs, last, tables

vars == <<regs, last, tables>>

(***************************************************************************)
(* Bounds of the exploration.                                              *)
(***************************************************************************)
\* Two operand slots hold the nodes the caller keeps; the trees of the two
\* slots together never have more than MaxSize nodes.
MaxSize == 6

\* The same bound for the caller of hsm.arith.tree, whose operands are drawn
\* from three values.
MaxTreeSize == 5

\* float('inf'), used for max_args and for the priority of relations.
Inf == 1000

\* None, for an operator that declares no min_args.
NoArgs == 0 - 1

\* The values operands are built from: symbols, and a negative literal for
\* the rendering.
Values == {"x", "y"}
TreeValues == {"x", "y", "-1"}

IsNumber(v) == v \in {"-1", "5"}

\* The evaluation context: symbol name -> value, and the literals' values.
ValueOf(v) ==
    CASE v = "x" -> 2
      [] v = "y" -> 3
      [] v = "z" -> 5
      [] v = "-1" -> 0 - 1
      [] v = "5" -> 5
      [] OTHER -> 0

(***************************************************************************)
(* Operator registry of hsm.algebra.operations.operators: the class        *)
(* attributes after __init_subclass__ (_setup_operand_quantity) has run.   *)
(***************************************************************************)
Operators == {"add", "sub", "mul", "minus", "pow", "abs"}

\* The operators each specification combines with.
CoreOperators == {"add", "sub", "minus", "abs"}
ArityOperators == {"pow", "abs"}

associative(op) == op \in {"add", "mul", "minus", "and", "or", "xor", "neg"}

idempotent(op) == op = "abs"

priority(op) ==
    CASE op \in {"add", "sub"} -> 0
      [] op \in {"mul", "minus", "div"} -> 1
      [] op \in {"pow", "root"} -> 2
      [] op = "abs" -> 3
      [] OTHER -> Inf

min_args(op) ==
    CASE op \in {"minus", "abs", "neg"} -> 1
      [] op \in {"union", "intersection", "diff"} -> NoArgs
      [] OTHER -> 2

declared_max_args(op) ==
    CASE op \in {"minus", "abs", "neg"} -> 1
      [] OTHER -> NoArgs

declared_chainable(op) ==
    CASE op \in {"pow", "root"} -> "False"
      [] OTHER -> "None"

\* _setup_operand_quantity: chainable defaults to min_args > 1.
chainable(op) ==
    IF declared_chainable(op) = "None"
    THEN IF min_args(op) = NoArgs THEN FALSE ELSE min_args(op) > 1
    ELSE declared_chainable(op) = "True"

\* _setup_operand_quantity: max_args defaults to float('inf').
max_args(op) ==
    IF declared_max_args(op) = NoArgs THEN Inf ELSE declared_max_args(op)

evaluates_to_bool(op) ==
    op \in {"eq", "ne", "ge", "gt", "le", "lt", "and", "or", "xor", "neg"}

(***************************************************************************)
(* Nodes.                                                                  *)
(***************************************************************************)
MISSING ==
    [kind |-> "MISSING", operator |-> "None", operands |-> <<>>,
     value |-> "", chained |-> FALSE]

AtomicOperand(v) ==
    [kind |-> "A", operator |-> "None", operands |-> <<>>,
     value |-> v, chained |-> FALSE]

Raise(msg) ==
    [kind |-> "Err", operator |-> "None", operands |-> <<>>,
     value |-> msg, chained |-> FALSE]

is_A(o) == o.kind = "A"
is_O(o) == o.kind = "O"
is_CO(o) == o.kind = "CO"
IsNode(o) == o.kind \in {"A", "O", "CO"}

RECURSIVE Size(_)
RECURSIVE SizeSum(_, _)
SizeSum(s, i) == IF i > Len(s) THEN 0 ELSE Size(s[i]) + SizeSum(s, i + 1)
Size(o) == IF is_A(o) THEN 1 ELSE 1 + SizeSum(o.operands, 1)

(***************************************************************************)
(* Operator.validate_operation: the outcome is "ok", "chained" or the      *)
(* error raised.  allowed is the set of operand kinds the node class       *)
(* accepts, {} when the class gives no _allowed_types.                     *)
(***************************************************************************)
\* too_few without the comparison: no operand count is too small.
too_few_never(self, nargs) == FALSE

\* if nargs < min_args
too_few(self, nargs) == nargs < min_args(self)

validate_operation(self, operands, allowed) ==
    LET nargs == Len(operands)
        quantity ==
            IF min_args(self) = NoArgs THEN "ok"
            ELSE IF too_few(self, nargs) THEN "too few arguments"
            ELSE IF nargs > max_args(self)
                 THEN IF ~chainable(self) THEN "not chainable" ELSE "chained"
                 ELSE "ok"
    IN  IF quantity \notin {"ok", "chained"} THEN quantity
        ELSE IF allowed # {} /\ \E i \in 1..nargs : operands[i].kind \notin allowed
             THEN "invalid operand type"
             ELSE quantity

\* The operators deriving from BooleanRelation.
BooleanRelations == {"and", "or", "xor", "neg"}

\* operand.evaluates_to_bool: an atom whose value is a bool, or an operation
\* whose operator evaluates to bool.
operand_evaluates_to_bool(o) ==
    IF is_A(o) THEN o.value \in {"True", "False"} ELSE evaluates_to_bool(o.operator)

\* operand.name
operand_name(o) == IF is_A(o) THEN "A" ELSE o.operator

\* nonboolean that keeps no operand.
nonboolean_none(operands) == <<>>

\* BooleanRelation.validate_operation: the operands appended to nonboolean,
\* each entry being the operand's repr and its name.
nonboolean(operands) ==
    LET Offends(o) == ~operand_evaluates_to_bool(o)
        kept == SelectSeq(operands, Offends)
    IN  [i \in 1..Len(kept) |-> [repr |-> kept[i], name |-> operand_name(kept[i])]]

\* ValueError('non-boolean operand(s) for ...: ' + ', '.join(nonboolean))
NonBooleanError(entries) ==
    [kind |-> "Err", operator |-> "None", operands |-> entries,
     value |-> "non-boolean operand(s)", chained |-> FALSE]

\* self.validate_operation of the operator's class: what it raises, or the
\* node made of the fields given.
validated(kind, self, operands, allowed) ==
    LET v == validate_operation(self, operands, allowed)
    IN  IF v \notin {"ok", "chained"} THEN Raise(v)
        ELSE IF self \in BooleanRelations /\ nonboolean(operands) # <<>>
        THEN NonBooleanError(nonboolean(operands))
        ELSE [kind |-> kind, operator |-> self, operands |-> operands,
              value |-> "", chained |-> (v = "chained")]

\* AtomicOperation.__init__: _allowed_types = AtomicOperand.
O(self, operands) == validated("O", self, operands, {"A"})

\* CompoundOperation.__init__: _allowed_types = (), so no type check is made.
CO(self, operands) == validated("CO", self, operands, {})

(***************************************************************************)
(* Operator.__call__.  The result is [ret, new]: the node returned (or the *)
(* error raised) and whether it came out of a constructor call.            *)
(***************************************************************************)
Made(node) == [ret |-> node, new |-> TRUE]
Same(node) == [ret |-> node, new |-> FALSE]

\* o1_so / o2_so: "is it the same operator?"
same_operator(self, o) == is_A(o) \/ o.operator = self

\* returns_operand without the idempotence test.
returns_operand_always(self, o1) ==
    o1.operator = self /\ (is_O(o1) \/ is_CO(o1))

\* case 1.2 of the unary form: the operand is returned unchanged.
returns_operand(self, o1) ==
    o1.operator = self /\ (is_O(o1) \/ is_CO(o1)) /\ idempotent(self)

unary_call(self, o1) ==
    IF is_A(o1) THEN Made(O(self, <<o1>>))
    ELSE IF returns_operand(self, o1) THEN Same(o1)
    ELSE Made(CO(self, <<o1>>))

\* prepends_atom without the associativity test.
prepends_atom_always(self, o1, o2) ==
    is_A(o1) /\ same_operator(self, o2)

\* cases 3-4: an atom on the left of an operation of the same operator.
prepends_atom(self, o1, o2) ==
    is_A(o1) /\ same_operator(self, o2) /\ associative(self)

\* cases 5 and 8: an atom on the right of an operation of the same operator.
appends_atom(self, o1, o2) ==
    is_A(o2) /\ same_operator(self, o1)

\* merge_operations with the operand lists joined right before left.
merge_operations_swapped(self, o1, o2) ==
    IF associative(self) /\ same_operator(self, o2)
    THEN IF is_O(o1) /\ same_operator(self, o1) /\ is_O(o2)
         THEN O(self, o2.operands \o o1.operands)
         ELSE IF same_operator(self, o1)
              THEN CO(self, o2.operands \o o1.operands)
              ELSE CO(self, <<o1>> \o o2.operands)
    ELSE IF same_operator(self, o1)
         THEN CO(self, o1.operands \o <<o2>>)
         ELSE CO(self, <<o1, o2>>)

\* merge_operations that makes a compound operation of two atomic ones.
merge_operations_compound(self, o1, o2) ==
    IF associative(self) /\ same_operator(self, o2)
    THEN IF same_operator(self, o1)
         THEN CO(self, o1.operands \o o2.operands)
         ELSE CO(self, <<o1>> \o o2.operands)
    ELSE IF same_operator(self, o1)
         THEN CO(self, o1.operands \o <<o2>>)
         ELSE CO(self, <<o1, o2>>)

\* cases 6, 7, 9, 10: two operations.
merge_operations(self, o1, o2) ==
    IF associative(self) /\ same_operator(self, o2)
    THEN IF is_O(o1) /\ same_operator(self, o1) /\ is_O(o2)
         THEN O(self, o1.operands \o o2.operands)
         ELSE IF same_operator(self, o1)
              THEN CO(self, o1.operands \o o2.operands)
              ELSE CO(self, <<o1>> \o o2.operands)
    ELSE IF same_operator(self, o1)
         THEN CO(self, o1.operands \o <<o2>>)
         ELSE CO(self, <<o1, o2>>)

binary_call(self, o1, o2) ==
    IF is_A(o1) /\ is_A(o2) THEN Made(O(self, <<o1, o2>>))
    ELSE IF same_operator(self, o1) \/ same_operator(self, o2)
    THEN IF prepends_atom(self, o1, o2)
         THEN IF is_O(o2) THEN Made(O(self, <<o1>> \o o2.operands))
              ELSE IF is_CO(o2) THEN Made(CO(self, <<o1>> \o o2.operands))
              ELSE Made(CO(self, <<o1, o2>>))
         ELSE IF appends_atom(self, o1, o2)
         THEN IF is_O(o1) THEN Made(O(self, o1.operands \o <<o2>>))
              ELSE IF is_CO(o1) THEN Made(CO(self, o1.operands \o <<o2>>))
              ELSE Made(CO(self, <<o1, o2>>))
         ELSE IF ~(is_A(o1) \/ is_A(o2))
         THEN Made(merge_operations(self, o1, o2))
         ELSE Made(CO(self, <<o1, o2>>))
    ELSE Made(CO(self, <<o1, o2>>))

OperatorCall(self, o1, o2) ==
    IF o2 = MISSING THEN unary_call(self, o1) ELSE binary_call(self, o1, o2)

(***************************************************************************)
(* Operator.compute: the left-to-right fold of compute_func over the       *)
(* values of the operands.                                                 *)
(***************************************************************************)
Abs(n) == IF n < 0 THEN 0 - n ELSE n

compute_func(self, v1, v2) ==
    CASE self = "add" -> v1 + v2
      [] self = "sub" -> v1 - v2
      [] self = "mul" -> v1 * v2
      [] self = "minus" -> 0 - v1
      [] self = "abs" -> Abs(v1)
      [] OTHER -> 0

\* compute_func is defined on the integers for these operators only.
Computable == {"add", "sub", "mul", "minus", "abs"}

RECURSIVE compute(_)
RECURSIVE reduce_compute(_, _, _, _)
reduce_compute(self, operands, i, acc) ==
    IF i > Len(operands) THEN acc
    ELSE reduce_compute(self, operands, i + 1,
                        compute_func(self, acc, compute(operands[i])))
compute(o) ==
    IF is_A(o) THEN ValueOf(o.value)
    ELSE LET v1 == compute(o.operands[1])
         IN  IF Len(o.operands) = 1 THEN compute_func(o.operator, v1, v1)
             ELSE reduce_compute(o.operator, o.operands, 2, v1)

RECURSIVE AllComputable(_)
AllComputable(o) ==
    is_A(o) \/ (o.operator \in Computable
                /\ \A i \in 1..Len(o.operands) : AllComputable(o.operands[i]))

(***************************************************************************)
(* hsm.arith: the operation schemes of hsm.arith.schemes, the constructor  *)
(* op() of hsm.arith.tree and the rendering OperationScheme.repr.          *)
(***************************************************************************)
Schemes == {"add", "sub", "mul"}

\* The class attributes of the schemes; nargs is None unless declared.
scheme_associative(S) == S \in {"add", "mul"}

scheme_priority(S) ==
    CASE S \in {"add", "sub"} -> 0
      [] S \in {"mul", "div"} -> 1
      [] S \in {"pow", "root"} -> 2
      [] S = "abs" -> 3
      [] OTHER -> Inf

scheme_nargs(S) ==
    CASE S \in {"abs", "neg"} -> 1
      [] OTHER -> NoArgs

\* OperationScheme.__init_subclass__: chainable defaults to nargs > 1.
scheme_chainable(S) ==
    IF S \in {"pow", "root"} \/ scheme_nargs(S) = NoArgs THEN FALSE
    ELSE scheme_nargs(S) > 1

\* The display template, cut at its replacement fields.
fmt(S) ==
    CASE S = "add" -> <<"{0}", " + ", "{1}">>
      [] S = "sub" -> <<"{0}", " - ", "{1}">>
      [] S = "mul" -> <<"{0}", " * ", "{1}">>
      [] S = "div" -> <<"{0}", " / ", "{1}">>
      [] S = "pow" -> <<"{0}", " ^ ", "{1}">>
      [] S = "abs" -> <<"|", "{0}", "|">>
      [] OTHER -> <<"{0}", "?">>

\* AtomicNode.priority
AtomicNodePriority == 0 - 1

node_priority(o) == IF is_A(o) THEN AtomicNodePriority ELSE scheme_priority(o.operator)

\* OperationScheme.validate_operands
validate_operands(self, operands, allowed) ==
    LET nargs == Len(operands)
        n == scheme_nargs(self)
        lo == IF n < 0 THEN 0 - n ELSE n
        hi == IF n < 0 THEN Inf ELSE n
        quantity ==
            IF n = NoArgs THEN "ok"
            ELSE IF nargs < lo THEN "too few arguments"
            ELSE IF nargs > hi
                 THEN IF ~scheme_chainable(self) THEN "not chainable" ELSE "chained"
                 ELSE "ok"
    IN  IF quantity \notin {"ok", "chained"} THEN quantity
        ELSE IF \E i \in 1..nargs : operands[i].kind \notin allowed
             THEN "invalid operand type"
             ELSE quantity

\* AtomicOperation.__post_init__ of hsm.arith.tree
tree_O(S, operands) ==
    LET v == validate_operands(S, operands, {"A"})
    IN  IF v \in {"ok", "chained"}
        THEN [kind |-> "O", operator |-> S, operands |-> operands,
              value |-> "", chained |-> (v = "chained")]
        ELSE Raise(v)

\* CompoundOperation.__post_init__ of hsm.arith.tree
tree_CO(S, operands) ==
    LET v == validate_operands(S, operands, {"A", "O", "CO"})
    IN  IF v \in {"ok", "chained"}
        THEN [kind |-> "CO", operator |-> S, operands |-> operands,
              value |-> "", chained |-> (v = "chained")]
        ELSE Raise(v)

\* "simplifiable" of op()
simplifiable(S, o1, o2) ==
    /\ scheme_associative(S)
    /\ (is_A(o1) \/ (scheme_associative(o1.operator) /\ o1.operator = S))
    /\ (is_A(o2) \/ (scheme_associative(o2.operator) /\ o2.operator = S))

\* op() of hsm.arith.tree
tree_op(S, o1, o2) ==
    IF o2 = MISSING
    THEN IF is_A(o1) THEN Made(tree_O(S, <<o1>>)) ELSE Made(tree_CO(S, <<o1>>))
    ELSE IF is_A(o1) /\ is_A(o2) THEN Made(tree_O(S, <<o1, o2>>))
    ELSE IF simplifiable(S, o1, o2)
    THEN IF is_A(o1)
         THEN IF is_O(o2) THEN Made(tree_O(S, <<o1>> \o o2.operands))
              ELSE Made(tree_CO(S, <<o1>> \o o2.operands))
         ELSE IF is_O(o1)
         THEN IF is_A(o2) THEN Made(tree_O(S, o1.operands \o <<o2>>))
              ELSE IF is_O(o2) THEN Made(tree_O(S, o1.operands \o o2.operands))
              ELSE Made(tree_CO(S, o1.operands \o o2.operands))
         ELSE IF is_A(o2) THEN Made(tree_CO(S, o1.operands \o <<o2>>))
              ELSE Made(tree_CO(S, o1.operands \o o2.operands))
    ELSE Made(tree_CO(S, <<o1, o2>>))

(***************************************************************************)
(* Rendering.  A text is kept as the sequence of its tokens (a value, a    *)
(* literal piece of a template, a parenthesis); Text joins them into the   *)
(* string.  str.format: every replacement field {i} is replaced by         *)
(* argument i, arguments no field names are ignored, and a field with no   *)
(* argument raises IndexError.  str.join('()') wraps in parentheses.       *)
(***************************************************************************)
IndexError == <<"IndexError">>

RECURSIVE Text(_)
Text(tokens) == IF tokens = <<>> THEN "" ELSE Head(tokens) \o Text(Tail(tokens))

FieldIndex(piece) ==
    CASE piece = "{0}" -> 1
      [] piece = "{1}" -> 2
      [] OTHER -> 0

RECURSIVE format_from(_, _, _)
format_from(pieces, args, i) ==
    IF i > Len(pieces) THEN <<>>
    ELSE LET f == FieldIndex(pieces[i])
             rest == format_from(pieces, args, i + 1)
             head == IF f = 0 THEN <<pieces[i]>>
                     ELSE IF f > Len(args) THEN IndexError ELSE args[f]
         IN  IF head = IndexError \/ rest = IndexError THEN IndexError
             ELSE head \o rest

format(pieces, args) == format_from(pieces, args, 1)

parenthesize(text) == IF text = IndexError THEN IndexError ELSE <<"(">> \o text \o <<")">>

\* AtomicNode.repr: a negative number is wrapped in parentheses.
atomic_repr(o) ==
    IF IsNumber(o.value) /\ ValueOf(o.value) < 0 THEN parenthesize(<<o.value>>)
    ELSE <<o.value>>

\* The parenthesization OperationScheme.repr asks of an operand.
needs_parentheses(self, obj) == scheme_priority(self) > node_priority(obj)

RECURSIVE repr(_, _)
RECURSIVE repr_all(_, _, _)
RECURSIVE repr_chain(_, _, _, _)
\* the renderings of objects[i..], each with the parentheses its parent asks for
repr_all(self, objects, i) ==
    IF i > Len(objects) THEN <<>>
    ELSE <<repr(objects[i], needs_parentheses(self, objects[i]))>>
         \o repr_all(self, objects, i + 1)
\* functools.reduce(fmt.format, extra operands, repr_string)
repr_chain(self, objects, i, acc) ==
    IF i > Len(objects) THEN acc
    ELSE repr_chain(self, objects, i + 1,
                    format(fmt(self),
                           <<acc, repr(objects[i], needs_parentheses(self, objects[i]))>>))
\* AtomicNode.repr / AtomicOperation.repr -> OperationScheme.repr
repr(o, parentheses) ==
    IF is_A(o) THEN atomic_repr(o)
    ELSE LET self == o.operator
             args == repr_all(self, o.operands, 1)
             first == IF \E i \in 1..Len(args) : args[i] = IndexError THEN IndexError
                      ELSE format(fmt(self), args)
             start == IF scheme_nargs(self) = NoArgs THEN 1 ELSE scheme_nargs(self) + 1
             text == IF o.chained THEN repr_chain(self, o.operands, start, first)
                     ELSE first
         IN  IF parentheses THEN parenthesize(text) ELSE text

\* __repr__
Render(o) == Text(repr(o, FALSE))

(***************************************************************************)
(* The state machine: a caller that builds operands and combines them.     *)
(* regs are the two nodes the caller keeps; last is the last call made on  *)
(* them: its form, its operator, the slots of its operands, what it        *)
(* returned (or raised) and whether that came out of a constructor.        *)
(***************************************************************************)
\* The class-level tables, which the callers of op() leave as they are.
NoTables == <<>>

NoCall ==
    [form |-> "none", op |-> "None", i |-> 1, j |-> 1, ret |-> MISSING, new |-> FALSE]

Init ==
    /\ regs \in [1..2 -> {AtomicOperand(v) : v \in Values}]
    /\ last = NoCall
    /\ tables = NoTables

\* The operands of the last call.
O1 == regs[last.i]
O2 == regs[last.j]

Call(form, self, i, j, r) ==
    /\ last' = [form |-> form, op |-> self, i |-> i, j |-> j,
                ret |-> r.ret, new |-> r.new]
    /\ UNCHANGED regs

\* operand(value): an atomic operand replaces slot k.
NewAtom(k, v) ==
    /\ regs' = [regs EXCEPT ![k] = AtomicOperand(v)]
    /\ last' = NoCall

\* op(Op, o1): the unary form.
Unary(self, i) == Call("unary", self, i, i, OperatorCall(self, regs[i], MISSING))

\* op(Op, o1, o2): the binary form.
Binary(self, i, j) == Call("binary", self, i, j, OperatorCall(self, regs[i], regs[j]))

\* The caller keeps the node the last call returned in slot k.
Keep(k) ==
    /\ IsNode(last.ret)
    /\ Size(last.ret) + Size(regs[3 - k]) <= MaxSize
    /\ regs' = [regs EXCEPT ![k] = last.ret]
    /\ last' = NoCall

Next ==
    \/ \E k \in 1..2, v \in Values :
           NewAtom(k, v) /\ UNCHANGED tables
    \/ \E self \in CoreOperators, i \in 1..2 :
           Unary(self, i) /\ UNCHANGED tables
    \/ \E self \in CoreOperators, i \in 1..2, j \in 1..2 :
           Binary(self, i, j) /\ UNCHANGED tables
    \/ \E k \in 1..2 :
           Keep(k) /\ UNCHANGED tables

Spec == Init /\ [][Next]_vars

NextArity ==
    \/ \E k \in 1..2, v \in Values :
           NewAtom(k, v) /\ UNCHANGED tables
    \/ \E self \in ArityOperators, i \in 1..2 :
           Unary(self, i) /\ UNCHANGED tables
    \/ \E self \in ArityOperators, i \in 1..2, j \in 1..2 :
           Binary(self, i, j) /\ UNCHANGED tables
    \/ \E k \in 1..2 :
           Keep(k) /\ UNCHANGED tables

SpecArity == Init /\ [][NextArity]_vars

(***************************************************************************)
(* Properties of the constructor of hsm.algebra.operations.                *)
(***************************************************************************)
\* The nodes the caller holds, with every node below them.
RECURSIVE Subnodes(_)
RECURSIVE SubnodesOf(_, _)
SubnodesOf(s, i) == IF i > Len(s) THEN {} ELSE Subnodes(s[i]) \cup SubnodesOf(s, i + 1)
Subnodes(o) == {o} \cup SubnodesOf(o.operands, 1)

Held ==
    Subnodes(regs[1]) \cup Subnodes(regs[2])
        \cup (IF IsNode(last.ret) THEN Subnodes(last.ret) ELSE {})

IsOperation(o) == is_O(o) \/ is_CO(o)

\* "compatible" of the dispatch table: an atom, or an operation of the same
\* operator when that operator is associative.
Compatible(self, o) == is_A(o) \/ (IsOperation(o) /\ o.operator = self /\ associative(self))

\* An atom counts as a one-element operand list.
OperandList(o) == IF is_A(o) THEN <<o>> ELSE o.operands

BinaryDone == last.form = "binary" /\ IsNode(last.ret)
UnaryDone == last.form = "unary"

\* C1: the tree the binary form returns denotes, read as the left-to-right
\* fold Operator.compute uses, the operator applied to the values of the two
\* operands; a right nesting under a non-associative operator is kept.
C1_BinaryDenotesSameValue ==
    BinaryDone =>
        compute(last.ret) = compute_func(last.op, compute(O1), compute(O2))

\* C1 witness: a - (b - c) has been built, an atom minus a subtraction.
C1_Witness ==
    /\ BinaryDone /\ last.op = "sub"
    /\ is_A(O1) /\ is_O(O2) /\ O2.operator = "sub"
    /\ compute(O2) # 0

\* C5: no node of an associative operator has an immediate operand that is
\* an operation of that same operator.
C5_NoNestedSameAssociative ==
    \A n \in Held :
        (IsOperation(n) /\ associative(n.operator)) =>
            \A i \in 1..Len(n.operands) :
                ~(IsOperation(n.operands[i]) /\ n.operands[i].operator = n.operator)

C7_IncompatibleSidesWrapped ==
    (BinaryDone /\ ~(is_A(O1) /\ is_A(O2))
        /\ (~Compatible(last.op, O1) \/ ~Compatible(last.op, O2))) =>
        /\ is_CO(last.ret)
        /\ last.ret.operands = <<O1, O2>>

C11_TooFewArgumentsRejected ==
    /\ (UnaryDone /\ min_args(last.op) > 1) =>
           /\ last.ret = Raise("too few arguments")
           /\ ~IsNode(last.ret)
    /\ \A n \in Held :
           IsOperation(n) => Len(n.operands) >= min_args(n.operator)

\* C11 witness: the unary form of add was applied to an operation and raised.
C11_Witness ==
    /\ UnaryDone /\ last.op = "add"
    /\ IsOperation(O1)
    /\ last.ret = Raise("too few arguments")

\* C10: no node of a non-chainable operator has more operands than the
\* operator's min_args.
C10_NonChainableWithinMinArgs ==
    \A n \in Held :
        (IsOperation(n) /\ ~chainable(n.operator)) =>
            Len(n.operands) <= min_args(n.operator)

(***************************************************************************)
(* The same caller over hsm.arith.tree.                                    *)
(***************************************************************************)
TreeInit ==
    /\ regs \in [1..2 -> {AtomicOperand(v) : v \in TreeValues}]
    /\ last = NoCall
    /\ tables = NoTables

\* AtomicNode(value)
TreeAtom(k, v) ==
    /\ regs' = [regs EXCEPT ![k] = AtomicOperand(v)]
    /\ last' = NoCall

TreeKeep(k) ==
    /\ IsNode(last.ret)
    /\ Size(last.ret) + Size(regs[3 - k]) <= MaxTreeSize
    /\ regs' = [regs EXCEPT ![k] = last.ret]
    /\ last' = NoCall

TreeUnary(S, i) == Call("unary", S, i, i, tree_op(S, regs[i], MISSING))

TreeBinary(S, i, j) == Call("binary", S, i, j, tree_op(S, regs[i], regs[j]))

NextTree ==
    \/ \E k \in 1..2, v \in TreeValues :
           TreeAtom(k, v) /\ UNCHANGED tables
    \/ \E S \in Schemes, i \in 1..2 :
           TreeUnary(S, i) /\ UNCHANGED tables
    \/ \E S \in Schemes, i \in 1..2, j \in 1..2 :
           TreeBinary(S, i, j) /\ UNCHANGED tables
    \/ \E k \in 1..2 :
           TreeKeep(k) /\ UNCHANGED tables

SpecTree == TreeInit /\ [][NextTree]_vars

(***************************************************************************)
(* Properties of the rendering of hsm.arith.tree.                          *)
(***************************************************************************)
IsSymbol(o) == is_A(o) /\ ~IsNumber(o.value)

\* the operator's infix symbol, as its template writes it
Infix(S) == fmt(S)[2]

\* combine(S, a, b) of two atoms
IsPair(S, o) ==
    /\ is_O(o)
    /\ o.operator = S
    /\ Len(o.operands) = 2

SymbolPair(S, o) == IsPair(S, o) /\ IsSymbol(o.operands[1]) /\ IsSymbol(o.operands[2])

\* "a @ b" with the bare values of the two atoms
PairText(o) == o.operands[1].value \o Infix(o.operator) \o o.operands[2].value

Parenthesized(text) == "(" \o text \o ")"

\* C2: for an associative operator @ and symbols a, b, c, both
\* combine(@, combine(@, a, b), c) and combine(@, a, combine(@, b, c)) render
\* as "a @ b @ c", without parentheses.
C2_AssociativeRendersFlat ==
    (BinaryDone /\ scheme_associative(last.op)) =>
        /\ (SymbolPair(last.op, O1) /\ IsSymbol(O2)) =>
               Render(last.ret) = PairText(O1) \o Infix(last.op) \o O2.value
        /\ (IsSymbol(O1) /\ SymbolPair(last.op, O2)) =>
               Render(last.ret) = O1.value \o Infix(last.op) \o PairText(O2)

\* C3: for a non-associative operator and symbols a, b, c,
\* combine(op, a, combine(op, b, c)) renders as "a op (b op c)" and
\* combine(op, combine(op, a, b), c) renders as "a op b op c".
C3_NonAssociativeKeepsRightNesting ==
    (BinaryDone /\ ~scheme_associative(last.op)) =>
        /\ (IsSymbol(O1) /\ SymbolPair(last.op, O2)) =>
               Render(last.ret) =
                   O1.value \o Infix(last.op) \o Parenthesized(PairText(O2))
        /\ (SymbolPair(last.op, O1) /\ IsSymbol(O2)) =>
               Render(last.ret) = PairText(O1) \o Infix(last.op) \o O2.value

\* the text of a child operation under the operator parent: inside
\* parentheses when its operator has the lower priority, bare when higher
ChildText(parent, o) ==
    IF scheme_priority(o.operator) < scheme_priority(parent)
    THEN Parenthesized(PairText(o))
    ELSE PairText(o)

OtherPriority(parent, o) ==
    /\ is_O(o)
    /\ Len(o.operands) = 2
    /\ scheme_priority(o.operator) # scheme_priority(parent)

Minus1 == AtomicOperand("-1")
X == AtomicOperand("x")
Y == AtomicOperand("y")

\* C4: a child operation of lower priority than the enclosing operator is
\* rendered inside parentheses, in either position, and a child of higher
\* priority is rendered bare; -1 * (x + y) renders '-1 * (x + y)',
\* -1 + (x * y) renders '-1 + x * y' and -1 * x + y renders '-1 * x + y'.
C4_PriorityDecidesParentheses ==
    BinaryDone =>
        /\ (IsSymbol(O1) /\ OtherPriority(last.op, O2) /\ SymbolPair(O2.operator, O2)) =>
               Render(last.ret) = O1.value \o Infix(last.op) \o ChildText(last.op, O2)
        /\ (OtherPriority(last.op, O1) /\ SymbolPair(O1.operator, O1) /\ IsSymbol(O2)) =>
               Render(last.ret) = ChildText(last.op, O1) \o Infix(last.op) \o O2.value
        /\ (last.op = "mul" /\ O1 = Minus1 /\ O2 = tree_O("add", <<X, Y>>)) =>
               Render(last.ret) = "-1 * (x + y)"
        /\ (last.op = "add" /\ O1 = Minus1 /\ O2 = tree_O("mul", <<X, Y>>)) =>
               Render(last.ret) = "-1 + x * y"
        /\ (last.op = "add" /\ O1 = tree_O("mul", <<Minus1, X>>) /\ O2 = Y) =>
               Render(last.ret) = "-1 * x + y"

(***************************************************************************)
(* Reading a rendering back by operator precedence: operators of equal     *)
(* priority group left to right, parentheses override.  The reading is     *)
(* carried out on the values of the symbols, so that two groupings that    *)
(* differ in mathematical meaning are read to different results.           *)
(***************************************************************************)
IsInfix(token) == \E S \in Schemes : Infix(S) = token
InfixScheme(token) == CHOOSE S \in Schemes : Infix(S) = token
TopPriority == CHOOSE p \in {scheme_priority(S) : S \in Schemes} :
                   \A S \in Schemes : scheme_priority(S) <= p

RECURSIVE ReadLevel(_, _, _)
RECURSIVE ReadRest(_, _, _, _)
\* an operand at priority level p, starting at token pos
ReadLevel(tokens, pos, p) ==
    IF p > TopPriority
    THEN IF tokens[pos] = "("
         THEN LET inner == ReadLevel(tokens, pos + 1, 0)
              IN  [val |-> inner.val, pos |-> inner.pos + 1]
         ELSE [val |-> ValueOf(tokens[pos]), pos |-> pos + 1]
    ELSE LET first == ReadLevel(tokens, pos, p + 1)
         IN  ReadRest(tokens, first.pos, p, first.val)
\* the operators of level p that follow, applied left to right
ReadRest(tokens, pos, p, acc) ==
    IF /\ pos <= Len(tokens)
       /\ IsInfix(tokens[pos])
       /\ scheme_priority(InfixScheme(tokens[pos])) = p
    THEN LET right == ReadLevel(tokens, pos + 1, p + 1)
         IN  ReadRest(tokens, right.pos, p,
                      compute_func(InfixScheme(tokens[pos]), acc, right.val))
    ELSE [val |-> acc, pos |-> pos]

ReadBack(tokens) == ReadLevel(tokens, 1, 0).val

Rendered(o) == repr(o, FALSE) # IndexError

\* C8: every tree combine has produced, read back from its rendering by
\* operator precedence, has the grouping of the tree: the reading denotes
\* the value the tree denotes.
C8_RenderingReadsBackToTree ==
    \A t \in {regs[1], regs[2]} \cup (IF IsNode(last.ret) THEN {last.ret} ELSE {}) :
        Rendered(t) => ReadBack(repr(t, FALSE)) = compute(t)

(***************************************************************************)
(* The variadic form of op(): _OpFunctionAPI.__call__ calls op on the      *)
(* first two operands and folds the trailing ones in with functools.reduce.*)
(* An exception raised by one call ends the whole call.                    *)
(***************************************************************************)
MaxRest == 2
MaxVariadicSize == 4
VariadicOperators == {"add", "sub", "lt"}
VariadicValues == {"x", "y"}

RECURSIVE op_reduce_reversed(_, _, _, _)
\* op_reduce taking the trailing operands from the last one to the first.
op_reduce_reversed(self, rest, i, acc) ==
    IF i > Len(rest) \/ ~IsNode(acc.ret) THEN acc
    ELSE op_reduce_reversed(self, rest, i + 1,
                            OperatorCall(self, acc.ret, rest[Len(rest) + 1 - i]))

RECURSIVE op_reduce(_, _, _, _)
\* functools.reduce(functools.partial(self.__op, Op), reduce, initial)
op_reduce(self, rest, i, acc) ==
    IF i > Len(rest) \/ ~IsNode(acc.ret) THEN acc
    ELSE op_reduce(self, rest, i + 1, OperatorCall(self, acc.ret, rest[i]))

\* _OpFunctionAPI.__call__ with at least two operands
variadic_call(self, o1, o2, rest) ==
    LET initial == OperatorCall(self, o1, o2)
    IN  IF rest # <<>> THEN op_reduce(self, rest, 1, initial) ELSE initial

VariadicNoCall ==
    [form |-> "none", op |-> "None", i |-> 1, j |-> 1, rest |-> <<>>,
     ret |-> MISSING, new |-> FALSE]

VariadicInit ==
    /\ regs \in [1..2 -> {AtomicOperand(v) : v \in VariadicValues}]
    /\ last = VariadicNoCall
    /\ tables = NoTables

VariadicAtom(k, v) ==
    /\ regs' = [regs EXCEPT ![k] = AtomicOperand(v)]
    /\ last' = VariadicNoCall

\* the trailing operands a caller passes: the nodes it keeps and the number 5
Passable == {regs[1], regs[2], AtomicOperand("5")}

\* op(Op, o1, o2, *rest) on the two nodes kept and the trailing operands
Variadic(self, rest) ==
    LET r == variadic_call(self, regs[1], regs[2], rest)
    IN  /\ last' = [form |-> "variadic", op |-> self, i |-> 1, j |-> 2,
                    rest |-> rest, ret |-> r.ret, new |-> r.new]
        /\ UNCHANGED regs

VariadicKeep(k) ==
    /\ IsNode(last.ret)
    /\ Size(last.ret) + Size(regs[3 - k]) <= MaxVariadicSize
    /\ regs' = [regs EXCEPT ![k] = last.ret]
    /\ last' = VariadicNoCall

NextVariadic ==
    \/ \E k \in 1..2, v \in VariadicValues :
           VariadicAtom(k, v) /\ UNCHANGED tables
    \/ \E self \in VariadicOperators, n \in 0..MaxRest :
           \E rest \in [1..n -> Passable] :
               Variadic(self, rest) /\ UNCHANGED tables
    \/ \E k \in 1..2 :
           VariadicKeep(k) /\ UNCHANGED tables

SpecVariadic == VariadicInit /\ [][NextVariadic]_vars

\* the binary form applied to what an earlier call returned, if it returned
Then(r, self, c) == IF IsNode(r) THEN OperatorCall(self, r, c).ret ELSE r

MaxBoolSize == 5
BoolOperators == {"and", "neg", "lt", "add"}
BoolValues == {"x", "True", "1"}

\* the dictionary key a value is found under: True == 1 and hash(True) == hash(1)
KeyOf(v) == IF v \in {"True", "1"} THEN "1" ELSE v

\* the memo of AtomicOperand: the atoms still referenced
LiveAtoms == {n \in Held : is_A(n)}

\* AtomicOperand(value) through the factory constructor and the smart initializer
InternedAtom(v) ==
    IF \E a \in LiveAtoms : KeyOf(a.value) = KeyOf(v)
    THEN CHOOSE a \in LiveAtoms : KeyOf(a.value) = KeyOf(v)
    ELSE AtomicOperand(v)

BoolInit ==
    /\ regs \in [1..2 -> {AtomicOperand(v) : v \in BoolValues}]
    /\ KeyOf(regs[1].value) = KeyOf(regs[2].value) => regs[1] = regs[2]
    /\ last = NoCall
    /\ tables = NoTables

BoolAtom(k, v) ==
    /\ regs' = [regs EXCEPT ![k] = InternedAtom(v)]
    /\ last' = NoCall

BoolUnary(self, i) == Call("unary", self, i, i, OperatorCall(self, regs[i], MISSING))

BoolBinary(self, i, j) == Call("binary", self, i, j, OperatorCall(self, regs[i], regs[j]))

BoolKeep(k) ==
    /\ IsNode(last.ret)
    /\ Size(last.ret) + Size(regs[3 - k]) <= MaxBoolSize
    /\ regs' = [regs EXCEPT ![k] = last.ret]
    /\ last' = NoCall

NextBool ==
    \/ \E k \in 1..2, v \in BoolValues :
           BoolAtom(k, v) /\ UNCHANGED tables
    \/ \E self \in BoolOperators, i \in 1..2 :
           BoolUnary(self, i) /\ UNCHANGED tables
    \/ \E self \in BoolOperators, i \in 1..2, j \in 1..2 :
           BoolBinary(self, i, j) /\ UNCHANGED tables
    \/ \E k \in 1..2 :
           BoolKeep(k) /\ UNCHANGED tables

SpecBool == BoolInit /\ [][NextBool]_vars

\* the operands a side brings to the node of the operator: its own operand
\* list if it is an operation of that associative operator, else itself
Brings(self, o) ==
    IF IsOperation(o) /\ o.operator = self /\ associative(self) THEN o.operands ELSE <<o>>

\* the operands of the node the last call is to construct
Resulting ==
    IF last.form = "unary" THEN <<O1>> ELSE Brings(last.op, O1) \o Brings(last.op, O2)

IsBoolean(o) ==
    \/ is_A(o) /\ o.value \in {"True", "False"}
    \/ IsOperation(o) /\ evaluates_to_bool(o.operator)

ArityFits(self, n) == min_args(self) <= n /\ (n <= max_args(self) \/ chainable(self))

\* the operands of a sequence that are not boolean, in the order of the sequence
Offending(operands) ==
    LET NotBoolean(o) == ~IsBoolean(o) IN SelectSeq(operands, NotBoolean)

BooleanCall == last.form \in {"unary", "binary"} /\ last.op \in BooleanRelations

\* C13: constructing a node of a boolean-only operator succeeds exactly when
\* the arity fits and every operand of the node is boolean; with fitting
\* arity and some operand not boolean it fails with the non-boolean-operand
\* error, which lists the offending operands once each, in operand order.
C13_BooleanOperandsRequired ==
    BooleanCall =>
        /\ IsNode(last.ret) <=>
               /\ ArityFits(last.op, Len(Resulting))
               /\ Offending(Resulting) = <<>>
        /\ IsNode(last.ret) => last.ret.operands = Resulting
        /\ (ArityFits(last.op, Len(Resulting)) /\ Offending(Resulting) # <<>>) =>
               /\ last.ret.kind = "Err"
               /\ last.ret.value = "non-boolean operand(s)"
               /\ Len(last.ret.operands) = Len(Offending(Resulting))
               /\ \A i \in 1..Len(last.ret.operands) :
                      last.ret.operands[i].repr = Offending(Resulting)[i]

\* C13 witness: a conjunction over a relation and two atoms, of which only
\* the non-boolean one is listed; and a conjunction that succeeded.
C13_Witness ==
    /\ BooleanCall /\ last.op = "and"
    /\ Len(Resulting) >= 3
    /\ Len(Offending(Resulting)) = 1
    /\ last.ret.kind = "Err"
    /\ last.ret.value = "non-boolean operand(s)"

(***************************************************************************)
(* Operator instances.  Operator.__new__ is an idempotent factory          *)
(* constructor: the memo is a WeakValueDictionary found on the class with  *)
(* getattr (so a base class's memo is inherited) and created on the class  *)
(* when none is found; Operator(name) delegates to the registered class.   *)
(* Here regs are the two references the caller keeps, last is the last     *)
(* lookup, tables.owners are the classes that own a memo and tables.memo   *)
(* is what each memo holds: instances [cls, name, id] still referenced.    *)
(***************************************************************************)
OperatorClasses == {"Operator", "Addition", "Subtraction", "Multiplication"}
OperatorNames == {"add", "sub", "mul"}

\* the base class each operator class derives from
base_class(c) ==
    CASE c = "Subtraction" -> "Addition"
      [] OTHER -> "Operator"

\* Operator._classes after the module is imported
registered_class(name) ==
    CASE name = "add" -> "Addition"
      [] name = "sub" -> "Subtraction"
      [] name = "mul" -> "Multiplication"

NoInstance == [cls |-> "None", name |-> "None", id |-> 0]

RECURSIVE IsSubclass(_, _)
IsSubclass(c, d) ==
    \/ c = d
    \/ c # "Operator" /\ IsSubclass(base_class(c), d)

\* the references alive: those of the caller and the one just returned
LiveInstances == ({regs[1], regs[2], last.ret}) \ {NoInstance}

\* the identity of a newly allocated object: one no live object has
FreshId == CHOOSE n \in 1..4 : \A a \in LiveInstances : a.id # n

RECURSIVE memo_owner(_, _)
\* getattr(cls, FC_MEMO_ATTR, None): the class along the bases that owns a memo
memo_owner(t, c) ==
    IF c \in t.owners THEN c
    ELSE IF c = "Operator" THEN "None"
    ELSE memo_owner(t, base_class(c))

\* if memo is None: setattr(cls, FC_MEMO_ATTR, WeakValueDictionary())
with_memo(t, c) ==
    IF memo_owner(t, c) = "None" THEN [t EXCEPT !.owners = @ \cup {c}] ELSE t

\* memo_get that finds nothing.
memo_get_missing(t, owner, name) == NoInstance

\* memo[instance_key], NoInstance standing for KeyError
memo_get(t, owner, name) ==
    IF \E a \in t.memo[owner] : a.name = name
    THEN CHOOSE a \in t.memo[owner] : a.name = name
    ELSE NoInstance

\* Cls(name) for a registered class: the factory constructor around
\* object.__new__(cls), then the smart initializer setting the name
concrete_new(t, c, name) ==
    LET t1 == with_memo(t, c)
        owner == memo_owner(t1, c)
        hit == memo_get(t1, owner, name)
        made == [cls |-> c, name |-> name, id |-> FreshId]
    IN  IF hit # NoInstance THEN [t |-> t1, ret |-> hit]
        ELSE [t |-> [t1 EXCEPT !.memo[owner] = @ \cup {made}], ret |-> made]

\* Operator(name): the factory constructor around factory(name)
operator_new(t, name) ==
    LET t1 == with_memo(t, "Operator")
        hit == memo_get(t1, "Operator", name)
        inner == concrete_new(t1, registered_class(name), name)
    IN  IF hit # NoInstance THEN [t |-> t1, ret |-> hit]
        ELSE [t |-> [inner.t EXCEPT !.memo["Operator"] = @ \cup {inner.ret}],
              ret |-> inner.ret]

\* the entries of dead instances leave the WeakValueDictionaries
purge(t, live) ==
    [t EXCEPT !.memo = [c \in OperatorClasses |-> t.memo[c] \cap live]]

NoLookup == [form |-> "none", cls |-> "None", name |-> "None", i |-> 1, ret |-> NoInstance]

OperatorsInit ==
    /\ regs = [k \in 1..2 |-> NoInstance]
    /\ last = NoLookup
    /\ tables = [owners |-> {}, memo |-> [c \in OperatorClasses |-> {}]]

\* Operator(name), or Cls(name) with the class's own name
Lookup(c, name) ==
    LET r == IF c = "Operator" THEN operator_new(tables, name)
             ELSE concrete_new(tables, c, name)
    IN  /\ c # "Operator" => registered_class(name) = c
        /\ last' = [form |-> "lookup", cls |-> c, name |-> name, i |-> 1, ret |-> r.ret]
        /\ tables' = purge(r.t, {regs[1], regs[2], r.ret})
        /\ UNCHANGED regs

\* Cls(instance) of the idempotent allocator: the instance itself
LookupInstance(c, i) ==
    /\ regs[i] # NoInstance
    /\ IsSubclass(regs[i].cls, c)
    /\ last' = [form |-> "instance", cls |-> c, name |-> regs[i].name, i |-> i,
                ret |-> regs[i]]
    /\ tables' = purge(tables, {regs[1], regs[2]})
    /\ UNCHANGED regs

\* the caller keeps the instance returned
KeepInstance(k) ==
    /\ last.ret # NoInstance
    /\ regs' = [regs EXCEPT ![k] = last.ret]
    /\ last' = NoLookup
    /\ tables' = purge(tables, {regs'[1], regs'[2]})

\* the caller drops a reference
ReleaseInstance(k) ==
    /\ regs[k] # NoInstance
    /\ regs' = [regs EXCEPT ![k] = NoInstance]
    /\ last' = NoLookup
    /\ tables' = purge(tables, {regs'[1], regs'[2]})

NextOperators ==
    \/ \E c \in OperatorClasses, name \in OperatorNames : Lookup(c, name)
    \/ \E c \in OperatorClasses, i \in 1..2 : LookupInstance(c, i)
    \/ \E k \in 1..2 : KeepInstance(k)
    \/ \E k \in 1..2 : ReleaseInstance(k)

SpecOperators == OperatorsInit /\ [][NextOperators]_vars

\* C14: at most one live Operator instance exists per name; a lookup of a
\* name some live instance has returns that instance, a lookup of an
\* instance returns it, and instances of different names are distinct.
C14_OneInstancePerName ==
    /\ \A a \in LiveInstances, b \in LiveInstances :
           /\ a.name = b.name => a = b
           /\ a.name # b.name => a.id # b.id
    /\ last.form = "lookup" =>
           /\ last.ret.name = last.name
           /\ \A k \in 1..2 : regs[k].name = last.name => last.ret = regs[k]
    /\ last.form = "instance" => last.ret = regs[last.i]

\* C14 witness: a class that owns its own memo and Operator, which owns
\* another, were both asked for the name of an instance the caller keeps.
C14_Witness ==
    /\ last.form = "lookup" /\ last.cls = "Operator"
    /\ {"Operator", "Addition"} \subseteq tables.owners
    /\ \E k \in 1..2 : regs[k].name = last.name /\ regs[k].cls = "Subtraction"
    /\ regs[1] # NoInstance /\ regs[2] # NoInstance /\ regs[1] # regs[2]

(***************************************************************************)
(* Registration of operator classes: Operator.__init_subclass__ enters the *)
(* class in _classes and runs _setup_swapped_ops.  tables keeps the        *)
(* registry and, per class, the attributes the method reads and writes:    *)
(* swapped, _swapped_cls (the one swap() uses), and the attributes         *)
(* swapped_name and swapped_cls it sets on the partner.                    *)
(***************************************************************************)
SwappableClasses == {"ge", "gt", "le", "lt", "in", "contains"}

\* the swapped attribute in the class body; "contains" is a class of the
\* caller's that names the registered relation "in" as its partner
declared_swapped(name) ==
    CASE name = "ge" -> "le"
      [] name = "gt" -> "lt"
      [] name = "le" -> "ge"
      [] name = "lt" -> "gt"
      [] name = "contains" -> "in"
      [] OTHER -> "None"

RegistryInit ==
    /\ regs = <<>>
    /\ last = [form |-> "none", name |-> "None"]
    /\ tables = [classes |-> {},
                 swapped |-> [n \in SwappableClasses |-> declared_swapped(n)],
                 private_swapped_cls |-> [n \in SwappableClasses |-> "None"],
                 swapped_name |-> [n \in SwappableClasses |-> "None"],
                 swapped_cls |-> [n \in SwappableClasses |-> "None"]]

\* Operator._setup_swapped_ops of the class cls, on the tables t
setup_swapped_ops(t, cls) ==
    LET name == t.swapped[cls]
        partner == t.private_swapped_cls[cls]
        found == IF name \in t.classes THEN name ELSE "None"
    IN  IF partner # "None"
        THEN [t EXCEPT !.swapped[cls] = partner,
                       !.private_swapped_cls[partner] = cls]
        ELSE IF name # "None"
        THEN IF found # "None"
             THEN [t EXCEPT !.swapped_name[found] = cls,
                            !.swapped_cls[found] = cls,
                            !.private_swapped_cls[cls] = found]
             ELSE [t EXCEPT !.private_swapped_cls[cls] = "None"]
        ELSE t

\* class cls(Relation): ... -> Operator.__init_subclass__
Register(cls) ==
    /\ cls \notin tables.classes
    /\ tables' = setup_swapped_ops([tables EXCEPT !.classes = @ \cup {cls}], cls)
    /\ last' = [form |-> "register", name |-> cls]
    /\ UNCHANGED regs

NextRegistry == \E cls \in SwappableClasses : Register(cls)

SpecRegistry == RegistryInit /\ [][NextRegistry]_vars

\* C15: whenever a registered class B declares swapped = A and A is
\* registered, the reference swap() uses points from B to A and from A to B.
C15_SwappedIsMutual ==
    \A b \in tables.classes :
        LET a == declared_swapped(b)
        IN  a \in tables.classes =>
                /\ tables.private_swapped_cls[b] = a
                /\ tables.private_swapped_cls[a] = b

(***************************************************************************)
(* Interning of hsm.arith.tree.CompoundOperation by hsm.toolkit: the       *)
(* constructor keeps its instances in a WeakValueDictionary under the      *)
(* factory key, which is the operands alone.  tables.instances are the     *)
(* entries, each an instance with the scheme and operands it was           *)
(* initialized with; tables.caught is the instance that the traceback of   *)
(* an exception the caller still holds refers to.                          *)
(***************************************************************************)
MaxInternSize == 4
InternSchemes == {"sub", "abs"}
InternValues == {"x", "y"}

instance_of(node) == [scheme |-> node.operator, operands |-> node.operands]

\* Constructor.new: the instance under the key, entered when it is missing
constructor_new(t, S, operands) ==
    IF \E e \in t.instances : e.operands = operands
    THEN [instance |-> CHOOSE e \in t.instances : e.operands = operands,
          tables |-> t]
    ELSE [instance |-> [scheme |-> S, operands |-> operands],
          tables |-> [t EXCEPT !.instances =
                          @ \cup {[scheme |-> S, operands |-> operands]}]]

\* CompoundOperation(S, *operands): Dataclass.__new__, then
\* Dataclass.__init__.  Constructor.init assigns the arguments and marks
\* the instance initialized, and returns at once on an instance already
\* marked, which every instance found in the table is; post_init then
\* validates the instance by the scheme it holds.
CompoundOperation(t, S, operands) ==
    LET n == constructor_new(t, S, operands)
        made == tree_CO(n.instance.scheme, n.instance.operands)
    IN  [ret |-> made, new |-> n.instance \notin t.instances,
         instance |-> n.instance, tables |-> n.tables]

\* The instances something still refers to: the compound operations in the
\* caller's nodes and the instance of the exception held.
referenced(nodes, caught) ==
    {instance_of(m) : m \in {n \in UNION {Subnodes(o) : o \in nodes} : is_CO(n)}}
        \cup caught

\* the entries of dead instances leave the WeakValueDictionary
expire(t, nodes) ==
    [t EXCEPT !.instances = @ \cap referenced(nodes, t.caught)]

InternInit ==
    /\ regs \in [1..2 -> {AtomicOperand(v) : v \in InternValues}]
    /\ last = NoCall
    /\ tables = [instances |-> {}, caught |-> {}]

\* AtomicNode(value)
InternAtom(k, v) ==
    /\ regs' = [regs EXCEPT ![k] = AtomicOperand(v)]
    /\ last' = NoCall
    /\ tables' = expire(tables, {regs'[1], regs'[2]})

\* AtomicOperation(S, regs[i], regs[j]) over atoms, which is not interned
InternAtomic(S, i, j) ==
    /\ is_A(regs[i]) /\ is_A(regs[j])
    /\ Call("binary", S, i, j, Made(tree_O(S, <<regs[i], regs[j]>>)))
    /\ tables' = expire(tables, {regs[1], regs[2], last'.ret})

\* CompoundOperation(S, regs[i], regs[j]); the exception of a failed call
\* is the one the caller holds from then on
InternCompound(S, i, j) ==
    /\ ~(is_A(regs[i]) /\ is_A(regs[j]))
    /\ LET r == CompoundOperation(tables, S, <<regs[i], regs[j]>>)
           held == IF IsNode(r.ret) THEN r.tables
                   ELSE [r.tables EXCEPT !.caught = {r.instance}]
       IN  /\ Call("binary", S, i, j, r)
           /\ tables' = expire(held, {regs[1], regs[2], r.ret})

\* The caller keeps the node the last call returned in slot k.
InternKeep(k) ==
    /\ IsNode(last.ret)
    /\ Size(last.ret) + Size(regs[3 - k]) <= MaxInternSize
    /\ regs' = [regs EXCEPT ![k] = last.ret]
    /\ last' = NoCall
    /\ tables' = expire(tables, {regs'[1], regs'[2]})

\* The caller lets go of the exception it caught.
InternRelease ==
    /\ tables.caught # {}
    /\ tables' = expire([tables EXCEPT !.caught = {}], {regs[1], regs[2], last.ret})
    /\ UNCHANGED <<regs, last>>

NextIntern ==
    \/ \E k \in 1..2, v \in InternValues : InternAtom(k, v)
    \/ \E S \in InternSchemes, i \in 1..2, j \in 1..2 : InternAtomic(S, i, j)
    \/ \E S \in InternSchemes, i \in 1..2, j \in 1..2 : InternCompound(S, i, j)
    \/ \E k \in 1..2 : InternKeep(k)
    \/ InternRelease

SpecIntern == InternInit /\ [][NextIntern]_vars

\* The validation CompoundOperation.__post_init__ runs on an instance.
Validated(e) ==
    validate_operands(e.scheme, e.operands, {"A", "O", "CO"}) \in {"ok", "chained"}

MaxQuotientSize == 6
QuotientSchemes == {"add", "sub", "div"}
QuotientValues == {"x", "y"}

QuotientInit ==
    /\ regs \in [1..2 -> {AtomicOperand(v) : v \in QuotientValues}]
    /\ last = NoCall
    /\ tables = NoTables

QuotientKeep(k) ==
    /\ IsNode(last.ret)
    /\ Size(last.ret) + Size(regs[3 - k]) <= MaxQuotientSize
    /\ regs' = [regs EXCEPT ![k] = last.ret]
    /\ last' = NoCall

NextQuotient ==
    \/ \E k \in 1..2, v \in QuotientValues :
           TreeAtom(k, v) /\ UNCHANGED tables
    \/ \E S \in QuotientSchemes, i \in 1..2 :
           TreeUnary(S, i) /\ UNCHANGED tables
    \/ \E S \in QuotientSchemes, i \in 1..2, j \in 1..2 :
           TreeBinary(S, i, j) /\ UNCHANGED tables
    \/ \E k \in 1..2 :
           QuotientKeep(k) /\ UNCHANGED tables

SpecQuotient == QuotientInit /\ [][NextQuotient]_vars

\* the last call made its two operands the children of a new node
KeptAsChildren == BinaryDone /\ last.ret.operands = <<O1, O2>>

\* an operation whose operator has the priority of the operator parent
EqualPriority(parent, o) ==
    IsOperation(o) /\ scheme_priority(o.operator) = scheme_priority(parent)

\* C17: an operation child whose priority equals its parent's is rendered
\* bare when it is the first operand or the parent is associative, and
\* inside parentheses when it is a later operand of a non-associative
\* parent; x / (y / x) / x renders 'x / (y / x) / x'.
C17_EqualPriorityChild ==
    KeptAsChildren =>
        /\ (EqualPriority(last.op, O1) /\ IsSymbol(O2)) =>
               Render(last.ret) = Render(O1) \o Infix(last.op) \o O2.value
        /\ (IsSymbol(O1) /\ EqualPriority(last.op, O2)) =>
               Render(last.ret) =
                   O1.value \o Infix(last.op) \o
                       (IF scheme_associative(last.op) THEN Render(O2)
                        ELSE Parenthesized(Render(O2)))
        /\ (last.op = "div" /\ O2 = X
                /\ O1 = tree_CO("div", <<X, tree_O("div", <<Y, X>>)>>)) =>
               Render(last.ret) = "x / (y / x) / x"

(***************************************************************************)
(* Negative literals in the rendering of hsm.arith.tree.                   *)
(***************************************************************************)
IsNegativeLiteral(o) == is_A(o) /\ IsNumber(o.value) /\ ValueOf(o.value) < 0

\* C18: in the rendering of an operation a negative literal is written
\* bare when it is the first operand and inside parentheses when it is a
\* later one; -1 * x + y renders '-1 * x + y'.
C18_NegativeLiteralBareWhenFirst ==
    BinaryDone =>
        /\ (IsNegativeLiteral(O1) /\ IsSymbol(O2)) =>
               Render(last.ret) = O1.value \o Infix(last.op) \o O2.value
        /\ (IsSymbol(O1) /\ IsNegativeLiteral(O2)) =>
               Render(last.ret) =
                   O1.value \o Infix(last.op) \o Parenthesized(O2.value)
        /\ (last.op = "add" /\ O1 = tree_O("mul", <<Minus1, X>>) /\ O2 = Y) =>
               Render(last.ret) = "-1 * x + y"

(***************************************************************************)
(* The rendering of hsm.algebra.operations: __repr__ of an operation goes  *)
(* through util.repr.repr_object with the operator's name as prefix and    *)
(* the operands as its one attribute, each operand rendered by its own     *)
(* __repr__; an atomic operand renders as its value.  The line is split    *)
(* only beyond 120 characters, which no tree within the bounds reaches.    *)
(***************************************************************************)
RECURSIVE repr_object(_)
RECURSIVE repr_collection(_, _)
\* util.repr.repr_collection, not split: the items joined by ', '
repr_collection(items, i) ==
    IF i > Len(items) THEN ""
    ELSE repr_object(items[i]) \o (IF i < Len(items) THEN ", " ELSE "")
         \o repr_collection(items, i + 1)
\* AtomicOperand.__repr__ / ExpressionOperand.__repr__
repr_object(o) ==
    IF is_A(o) THEN o.value
    ELSE o.operator \o "(" \o repr_collection(o.operands, 1) \o ")"

\* C19: unary minus of a non-atomic expression e renders as
\* '-(' + render(e) + ')', whatever the operator of e.
C19_MinusOfExpressionParenthesized ==
    (UnaryDone /\ last.op = "minus" /\ IsOperation(O1) /\ IsNode(last.ret)) =>
        repr_object(last.ret) = "-(" \o repr_object(O1) \o ")"

(***************************************************************************)
(* Negation.  A symbol is written here as Symbol.__repr__ writes it: its   *)
(* name, after '-' when negate is set; operand('-x') makes the negated     *)
(* symbol through Symbol.from_string.                                      *)
(***************************************************************************)
MaxNegationSize == 4
NegationValues == {"x", "-x", "5"}

IsReal(v) == v \in {"5", "-5"}
minus_real(v) == IF v = "5" THEN "-5" ELSE "5"

\* Symbol.from_string: the name and the negate flag a string stands for
symbol_name(v) == IF v = "-x" THEN "x" ELSE v
symbol_negate(v) == v = "-x"

\* Symbol.__repr__
symbol_repr(name, negate) == IF negate THEN "-" \o name ELSE name

\* The parameters of the key maker of Symbol.__new__.
SymbolParameters == {"name", "negate"}

\* Symbol(name, keyword=flag): the factory __new__ hands its arguments to
\* the key maker, which raises TypeError on a keyword it does not have
Symbol(name, keyword, flag) ==
    IF keyword \notin SymbolParameters THEN "TypeError"
    ELSE symbol_repr(name, flag)

\* Symbol.__neg__
symbol_neg(v) == Symbol(symbol_name(v), "negative", ~symbol_negate(v))

\* AtomicOperand.__neg__: type(self)(-self.value)
atomic_neg(o) ==
    LET v == IF IsReal(o.value) THEN minus_real(o.value) ELSE symbol_neg(o.value)
    IN  IF v = "TypeError" THEN Raise("TypeError") ELSE AtomicOperand(v)

\* AtomicNode.__neg__ of hsm.arith.tree: AtomicNode(-self.value), where
\* the Symbol of hsm.arith.tree defines no __neg__
node_neg(o) ==
    IF IsReal(o.value) THEN AtomicOperand(minus_real(o.value))
    ELSE Raise("TypeError")

NegationInit ==
    /\ regs \in [1..2 -> {AtomicOperand(v) : v \in NegationValues}]
    /\ last = NoCall
    /\ tables = NoTables

\* -regs[i] in hsm.algebra.operations: AtomicOperand.__neg__ on an atom,
\* ExpressionOperand.__neg__ on an operation
Negate(i) ==
    Call("neg", "minus", i, i,
         IF is_A(regs[i]) THEN Made(atomic_neg(regs[i]))
         ELSE unary_call("minus", regs[i]))

\* -regs[i] on an atomic node of hsm.arith.tree
NodeNegate(i) ==
    /\ is_A(regs[i])
    /\ Call("node_neg", "minus", i, i, Made(node_neg(regs[i])))

NegationKeep(k) ==
    /\ IsNode(last.ret)
    /\ Size(last.ret) + Size(regs[3 - k]) <= MaxNegationSize
    /\ regs' = [regs EXCEPT ![k] = last.ret]
    /\ last' = NoCall

NextNegation ==
    \/ \E k \in 1..2, v \in NegationValues :
           NewAtom(k, v) /\ UNCHANGED tables
    \/ \E i \in 1..2 :
           Negate(i) /\ UNCHANGED tables
    \/ \E i \in 1..2 :
           NodeNegate(i) /\ UNCHANGED tables
    \/ \E i \in 1..2, j \in 1..2 :
           Binary("add", i, j) /\ UNCHANGED tables
    \/ \E k \in 1..2 :
           NegationKeep(k) /\ UNCHANGED tables

SpecNegation == NegationInit /\ [][NextNegation]_vars

IsSymbolAtom(o) == is_A(o) /\ ~IsReal(o.value)

\* C20: negating a symbol atom gives the atom of the same name with the
\* sign flipped: -x renders '-x' and the negation of that renders 'x'.
C20_SymbolNegationFlipsSign ==
    (last.form \in {"neg", "node_neg"} /\ IsSymbolAtom(O1)) =>
        /\ is_A(last.ret)
        /\ repr_object(last.ret) =
               symbol_repr(symbol_name(O1.value), ~symbol_negate(O1.value))

(***************************************************************************)
(* The caller of hsm.algebra.operations over add and minus, with room for  *)
(* a compound operation on the left and an operation on the right.         *)
(***************************************************************************)
MaxOrderSize == 7
OrderOperators == {"add", "minus"}

OrderKeep(k) ==
    /\ IsNode(last.ret)
    /\ Size(last.ret) + Size(regs[3 - k]) <= MaxOrderSize
    /\ regs' = [regs EXCEPT ![k] = last.ret]
    /\ last' = NoCall

NextOrder ==
    \/ \E k \in 1..2, v \in Values :
           NewAtom(k, v) /\ UNCHANGED tables
    \/ \E self \in OrderOperators, i \in 1..2 :
           Unary(self, i) /\ UNCHANGED tables
    \/ \E self \in OrderOperators, i \in 1..2, j \in 1..2 :
           Binary(self, i, j) /\ UNCHANGED tables
    \/ \E k \in 1..2 :
           OrderKeep(k) /\ UNCHANGED tables

SpecOrder == Init /\ [][NextOrder]_vars

\* atoms before atomic operations before compound operations
KindRank(o) == IF is_A(o) THEN 0 ELSE IF is_O(o) THEN 1 ELSE 2

KindSorted(operands) ==
    \A i \in 1..Len(operands), j \in 1..Len(operands) :
        i < j => KindRank(operands[i]) <= KindRank(operands[j])

\* C21: for an associative operator, a compound operation of that operator
\* on the left combined with an operation of that operator on the right
\* gives a compound operation whose operands are ordered by kind: atoms,
\* then atomic operations, then compound operations.
C21_OperandsOrderedByKind ==
    (BinaryDone /\ associative(last.op)
        /\ is_CO(O1) /\ O1.operator = last.op /\ KindSorted(O1.operands)
        /\ IsOperation(O2) /\ O2.operator = last.op /\ KindSorted(O2.operands)) =>
        /\ is_CO(last.ret)
        /\ KindSorted(last.ret.operands)

\* C22: every node of a chainable operator is chained exactly when it has
\* more operands than the operator's min_args.
C22_ChainedIffBeyondMinArgs ==
    \A n \in Held :
        (IsOperation(n) /\ chainable(n.operator)) =>
            (n.chained <=> Len(n.operands) > min_args(n.operator))

(***************************************************************************)
(* util.oop.make_factory_constructor on the class Point2D of util/oop.py.  *)
(* regs are the caller's two names (0: unbound), each a reference to an    *)
(* instance; tables.heap keeps the attributes of the instances made so     *)
(* far, tables.memo the instances in the WeakValueDictionary of the class, *)
(* tables.made their count and tables.collected the keys of the instances  *)
(* that were collected.                                                    *)
(***************************************************************************)
MaxMade == 4
PointKeys == {<<0, 0>>, <<0, 1>>}

NoPoint == [key |-> <<>>, mark |-> FALSE]

\* the instances a name refers to
referents(names) == {names[k] : k \in DOMAIN names} \ {0}

\* memo[instance_key], when no entry ever leaves the dictionary
memo_entries_kept(t, refs) == t.memo

\* WeakValueDictionary: the entries of instances without a referent are gone
memo_entries(t, refs) == t.memo \cap refs

\* try: instance = memo[instance_key]
factory_lookup(t, refs, key) ==
    {i \in memo_entries(t, refs) : t.heap[i].key = key}

\* the allocator __new__ followed by Point2D.__init__(x, y)
factory_new(t, refs, key) ==
    LET hit == factory_lookup(t, refs, key)
    IN  IF hit # {}
        THEN [ret |-> CHOOSE i \in hit : TRUE, tables |-> t]
        ELSE [ret |-> t.made + 1,
              tables |-> [t EXCEPT !.made = @ + 1,
                                   !.memo = memo_entries(t, refs) \cup {t.made + 1},
                                   !.heap[t.made + 1] = [key |-> key, mark |-> FALSE]]]

\* the instances that nothing refers to any more are collected
collect(t, refs) ==
    LET alive == refs \cup memo_entries(t, refs)
    IN  [t EXCEPT !.memo = memo_entries(t, refs),
                  !.collected = @ \cup ({t.heap[i].key : i \in (1..t.made) \ alive}
                                            \ {<<>>}),
                  !.heap = [i \in 1..MaxMade |->
                                IF i \in alive THEN t.heap[i] ELSE NoPoint]]

FactoryInit ==
    /\ regs = [k \in 1..2 |-> 0]
    /\ last = [form |-> "none", key |-> <<>>, found |-> 0, mark |-> FALSE, ret |-> 0]
    /\ tables = [memo |-> {}, made |-> 0, collected |-> {},
                 heap |-> [i \in 1..MaxMade |-> NoPoint]]

\* p_k = Point2D(*key)
Construct(k, key) ==
    /\ tables.made < MaxMade
    /\ LET refs == referents(regs)
           live == {i \in refs : tables.heap[i].key = key}
           r == factory_new(tables, refs, key)
       IN  /\ regs' = [regs EXCEPT ![k] = r.ret]
           /\ tables' = collect(r.tables, referents(regs'))
           /\ last' = [form |-> "construct", key |-> key,
                       found |-> IF live = {} THEN 0 ELSE CHOOSE i \in live : TRUE,
                       mark |-> \E i \in live : tables.heap[i].mark,
                       ret |-> r.ret]

\* setattr(p_k, '__special_mark__', None)
SetMark(k) ==
    /\ regs[k] # 0
    /\ tables' = [tables EXCEPT !.heap[regs[k]].mark = TRUE]
    /\ last' = [form |-> "setattr", key |-> tables.heap[regs[k]].key,
                found |-> regs[k], mark |-> TRUE, ret |-> regs[k]]
    /\ UNCHANGED regs

\* del p_k
Release(k) ==
    /\ regs[k] # 0
    /\ regs' = [regs EXCEPT ![k] = 0]
    /\ tables' = collect(tables, referents(regs'))
    /\ last' = [form |-> "del", key |-> tables.heap[regs[k]].key,
                found |-> regs[k], mark |-> FALSE, ret |-> 0]

NextFactory ==
    \/ \E k \in 1..2, key \in PointKeys : Construct(k, key)
    \/ \E k \in 1..2 : SetMark(k)
    \/ \E k \in 1..2 : Release(k)

SpecFactory == FactoryInit /\ [][NextFactory]_vars

\* C23: two live instances never share a key; a construction returns the
\* instance that is live for its key, with the attributes set through any
\* other reference; and when no instance is live for the key it returns a
\* new instance that has none of the attributes of an earlier one.
C23_OneLiveInstancePerKey ==
    /\ \A i \in referents(regs), j \in referents(regs) :
           tables.heap[i].key = tables.heap[j].key => i = j
    /\ last.form = "construct" =>
           IF last.found # 0
           THEN /\ last.ret = last.found
                /\ tables.heap[last.ret].mark = last.mark
           ELSE /\ last.ret = tables.made
                /\ ~tables.heap[last.ret].mark
                /\ tables.heap[last.ret].key = last.key

\* an instance of the key was marked and collected, and the construction
\* returned a new one
C23_Witness ==
    /\ last.form = "construct"
    /\ last.found = 0
    /\ last.key \in tables.collected
    /\ regs[1] # 0 /\ regs[2] # 0 /\ regs[1] # regs[2]

(***************************************************************************)
(* util.oop.smart_initializer around AtomicOperand.__init__.  regs are two *)
(* allocated instances with their attributes; runs counts the times the    *)
(* body of the initializer has run to its end on the instance.             *)
(***************************************************************************)
MaxRuns == 2
InitArguments == {"x", "5", "True", "None"}

\* object.__new__(cls): no instance attribute, the class attribute
\* evaluates_to_bool = False showing through
Allocated ==
    [value |-> "unset", evaluates_to_bool |-> FALSE, initialized |-> FALSE, runs |-> 0]

\* the body raises TypeError in Symbol.from_string for a value that is
\* neither a number nor a string
body_raises(value) == value = "None"

\* AtomicOperand.__init__, the wrapped body
init_body(self, value) ==
    [self EXCEPT !.value = value,
                 !.evaluates_to_bool = (@ \/ value = "True"),
                 !.runs = @ + 1]

\* the test of the wrapper, never true
already_initialized_never(self) == FALSE

\* getattr(self, INITIALIZED_ATTR, False)
already_initialized(self) == self.initialized

\* the __init__ smart_initializer returns: [self, raised]
smart_init(self, value) ==
    IF already_initialized(self) THEN [self |-> self, raised |-> FALSE]
    ELSE IF body_raises(value) THEN [self |-> self, raised |-> TRUE]
    ELSE [self |-> [init_body(self, value) EXCEPT !.initialized = TRUE],
          raised |-> FALSE]

InitializerInit ==
    /\ regs = [k \in 1..2 |-> Allocated]
    /\ last = [form |-> "none", k |-> 1, value |-> "None", before |-> Allocated,
               raised |-> FALSE]
    /\ tables = NoTables

\* regs[k].__init__(value)
CallInit(k, value) ==
    /\ regs[k].runs < MaxRuns
    /\ LET r == smart_init(regs[k], value)
       IN  /\ regs' = [regs EXCEPT ![k] = r.self]
           /\ last' = [form |-> "init", k |-> k, value |-> value,
                       before |-> regs[k], raised |-> r.raised]
    /\ UNCHANGED tables

\* regs[k] = object.__new__(AtomicOperand)
Allocate(k) ==
    /\ regs[k] # Allocated
    /\ regs' = [regs EXCEPT ![k] = Allocated]
    /\ last' = [form |-> "new", k |-> k, value |-> "None", before |-> regs[k],
                raised |-> FALSE]
    /\ UNCHANGED tables

NextInitializer ==
    \/ \E k \in 1..2, value \in InitArguments : CallInit(k, value)
    \/ \E k \in 1..2 : Allocate(k)

SpecInitializer == InitializerInit /\ [][NextInitializer]_vars

\* C24: the body runs to its end at most once per instance; a call on an
\* initialized instance changes no attribute; a call whose body raises
\* leaves the instance unmarked, and the next call runs the body.
C24_InitializesOnce ==
    /\ \A k \in 1..2 : regs[k].runs <= 1 /\ (regs[k].initialized <=> regs[k].runs = 1)
    /\ last.form = "init" =>
           /\ last.before.initialized =>
                  regs[last.k] = last.before /\ ~last.raised
           /\ (~last.before.initialized /\ last.raised) =>
                  ~regs[last.k].initialized
           /\ (~last.before.initialized /\ ~body_raises(last.value)) =>
                  /\ regs[last.k].value = last.value
                  /\ regs[last.k].initialized

\* a second call on an initialized instance, with another value
C24_Witness ==
    /\ last.form = "init"
    /\ last.before.initialized
    /\ last.value \notin {last.before.value, "None"}
    /\ regs[3 - last.k].value = "x"
    /\ ~regs[3 - last.k].evaluates_to_bool

(***************************************************************************)
(* Symbol.from_string.  A string is the sequence of its characters.        *)
(***************************************************************************)
MaxSymbolLen == 5
Characters == {"(", ")", "-", "x"}
SymbolStrings == UNION {[1..n -> Characters] : n \in 1..MaxSymbolLen}

\* str.count(c)
RECURSIVE count(_, _)
count(string, c) ==
    IF string = <<>> THEN 0
    ELSE (IF Head(string) = c THEN 1 ELSE 0) + count(Tail(string), c)

\* str.lstrip('-')
RECURSIVE lstrip(_)
lstrip(string) ==
    IF string # <<>> /\ Head(string) = "-" THEN lstrip(Tail(string)) ELSE string

startswith(string, c) == string # <<>> /\ Head(string) = c
endswith(string, c) == string # <<>> /\ string[Len(string)] = c

\* Symbol.from_string(string, _negate, _suppress_bracket_warnings): the
\* symbol made, and whether a warning was given
RECURSIVE from_string(_, _, _)
from_string(string, negate, suppress) ==
    LET warns == ~suppress /\ count(string, "(") # count(string, ")")
        inner == IF startswith(string, "(") /\ endswith(string, ")")
                 THEN SubSeq(string, 2, Len(string) - 1)
                 ELSE string
    IN  IF startswith(inner, "-")
        THEN LET new_string == lstrip(inner)
                 flipped == IF (Len(inner) - Len(new_string)) % 2 = 1
                            THEN ~negate ELSE negate
                 r == from_string(new_string, flipped, suppress \/ warns)
             IN  [r EXCEPT !.warned = @ \/ warns]
        ELSE [name |-> inner, negate |-> negate, warned |-> warns]

\* The string handed to from_string is any string over the characters.
ParseInit ==
    /\ regs \in SymbolStrings
    /\ last = [form |-> "none", string |-> <<>>,
               ret |-> [name |-> <<>>, negate |-> FALSE, warned |-> FALSE]]
    /\ tables = NoTables

\* Symbol.from_string(string)
Parse ==
    /\ last.form = "none"
    /\ last' = [form |-> "from_string", string |-> regs,
                ret |-> from_string(regs, FALSE, FALSE)]
    /\ UNCHANGED <<regs, tables>>

NextParse == Parse

SpecParse == ParseInit /\ [][NextParse]_vars

\* a name with minus signs before it and balanced parentheses around the
\* bare or the signed name
RECURSIVE SignedName(_)
SignedName(string) ==
    \/ string = <<"x">>
    \/ Len(string) >= 2 /\ Head(string) = "-" /\ SignedName(Tail(string))
    \/ /\ Len(string) >= 3
       /\ Head(string) = "("
       /\ string[Len(string)] = ")"
       /\ SignedName(SubSeq(string, 2, Len(string) - 1))

\* C25: from_string of a signed name gives the symbol of the bare name,
\* negated exactly when the number of minus signs is odd; a string with
\* unbalanced parentheses gives a warning and a symbol.
C25_FromStringReadsSignedName ==
    last.form = "from_string" =>
        /\ SignedName(last.string) =>
               /\ last.ret.name = <<"x">>
               /\ last.ret.negate = (count(last.string, "-") % 2 = 1)
               /\ ~last.ret.warned
        /\ count(last.string, "(") # count(last.string, ")") => last.ret.warned

(***************************************************************************)
(* hsm.arith.op: op() over the arithmetics of hsm.arith.ariths.  The       *)
(* binary form of op() in hsm.ops.operand is the same text with Op for R   *)
(* and o.operation for o.arith.                                            *)
(***************************************************************************)
MaxArithSize == 6
Arithmetics == {"add", "sub", "mul"}
ArithValues == {"x", "y"}

\* Addition.associative, Multiplication.associative; Subtraction resets it.
arith_associative(R) == R \in {"add", "mul"}

\* Arithmetic.validate_operands with min_args = 2 and max_args = inf.
arith_validate_operands(operands, allowed) ==
    IF Len(operands) < 2 THEN "too few arguments"
    ELSE IF \E i \in 1..Len(operands) : operands[i].kind \notin allowed
         THEN "invalid operand type"
         ELSE "ok"

\* O(R, *operands): AtomicOperation.__post_init__ of hsm.arith.op
arith_O(R, operands) ==
    LET v == arith_validate_operands(operands, {"A"})
    IN  IF v = "ok"
        THEN [kind |-> "O", operator |-> R, operands |-> operands,
              value |-> "", chained |-> FALSE]
        ELSE Raise(v)

\* CO(R, *operands): CompoundOperation.__post_init__ of hsm.arith.op
arith_CO(R, operands) ==
    LET v == arith_validate_operands(operands, {"A", "O", "CO"})
    IN  IF v = "ok"
        THEN [kind |-> "CO", operator |-> R, operands |-> operands,
              value |-> "", chained |-> FALSE]
        ELSE Raise(v)

\* simplifiable = R.associative and (o1.arith is R or o2.arith is R)
arith_simplifiable(R, o1, o2) ==
    arith_associative(R) /\ (o1.operator = R \/ o2.operator = R)

\* op(R, o1, o2) of hsm.arith.op
arith_op(R, o1, o2) ==
    IF o2 = MISSING
    THEN IF is_A(o1) THEN Made(arith_O(R, <<o1>>)) ELSE Made(arith_CO(R, <<o1>>))
    ELSE IF is_A(o1) /\ is_A(o2) THEN Made(arith_O(R, <<o1, o2>>))
    ELSE IF arith_simplifiable(R, o1, o2) /\ is_A(o1) /\ is_O(o2)
    THEN Made(arith_O(R, <<o1>> \o o2.operands))
    ELSE IF arith_simplifiable(R, o1, o2) /\ is_A(o1) /\ is_CO(o2)
    THEN Made(arith_CO(R, <<o1>> \o o2.operands))
    ELSE IF arith_simplifiable(R, o1, o2) /\ ~is_A(o1) /\ ~is_A(o2)
    THEN IF is_O(o1) /\ is_O(o2)
         THEN Made(arith_O(R, o1.operands \o o2.operands))
         ELSE IF o1.operator = R /\ o2.operator = R
         THEN Made(arith_CO(R, o1.operands \o o2.operands))
         ELSE IF o1.operator = R
         THEN Made(arith_CO(R, o1.operands \o <<o2>>))
         ELSE Made(arith_CO(R, <<o1>> \o o2.operands))
    ELSE IF arith_simplifiable(R, o1, o2) /\ is_O(o1) /\ is_A(o2)
    THEN Made(arith_O(R, o1.operands \o <<o2>>))
    ELSE IF arith_simplifiable(R, o1, o2) /\ is_CO(o1) /\ is_A(o2)
    THEN Made(arith_CO(R, o1.operands \o <<o2>>))
    ELSE Made(arith_CO(R, <<o1, o2>>))

ArithInit ==
    /\ regs \in [1..2 -> {AtomicOperand(v) : v \in ArithValues}]
    /\ last = NoCall
    /\ tables = NoTables

\* AtomicNode(value)
ArithAtom(k, v) ==
    /\ regs' = [regs EXCEPT ![k] = AtomicOperand(v)]
    /\ last' = NoCall

ArithUnary(R, i) == Call("unary", R, i, i, arith_op(R, regs[i], MISSING))

ArithBinary(R, i, j) == Call("binary", R, i, j, arith_op(R, regs[i], regs[j]))

ArithKeep(k) ==
    /\ IsNode(last.ret)
    /\ Size(last.ret) + Size(regs[3 - k]) <= MaxArithSize
    /\ regs' = [regs EXCEPT ![k] = last.ret]
    /\ last' = NoCall

NextArith ==
    \/ \E k \in 1..2, v \in ArithValues :
           ArithAtom(k, v) /\ UNCHANGED tables
    \/ \E R \in Arithmetics, i \in 1..2 :
           ArithUnary(R, i) /\ UNCHANGED tables
    \/ \E R \in Arithmetics, i \in 1..2, j \in 1..2 :
           ArithBinary(R, i, j) /\ UNCHANGED tables
    \/ \E k \in 1..2 :
           ArithKeep(k) /\ UNCHANGED tables

SpecArith == ArithInit /\ [][NextArith]_vars

\* C26: op() applied to two atomic operations returns the flat atomic
\* operation over the operands of the first followed by the operands of the
\* second only when the operator is associative and both sides are built
\* with it; in every other case it returns CO(R, o1, o2), which keeps both
\* sides as sub-expressions.
C26_FlattensOnlyWhenBothSidesMatch ==
    (last.form = "binary" /\ is_O(O1) /\ is_O(O2)) =>
        IF arith_associative(last.op) /\ O1.operator = last.op /\ O2.operator = last.op
        THEN last.ret = arith_O(last.op, O1.operands \o O2.operands)
        ELSE last.ret = arith_CO(last.op, <<O1, O2>>)

\* C27: after any sequence of combine calls every node's variant matches
\* its operands: an atomic operation has only atoms as immediate operands,
\* and a compound operation has at least one immediate operand that is not
\* an atom.
C27_VariantMatchesOperands ==
    \A o \in Held :
        /\ is_O(o) => \A i \in 1..Len(o.operands) : is_A(o.operands[i])
        /\ is_CO(o) => \E i \in 1..Len(o.operands) : ~is_A(o.operands[i])

\* A compound operation that went through flattening and holds atoms next
\* to an operation, with both variants among the nodes held.
C27_Witness ==
    /\ last.form = "binary"
    /\ is_CO(last.ret)
    /\ Len(last.ret.operands) >= 3
    /\ \E i \in 1..Len(last.ret.operands) : is_A(last.ret.operands[i])
    /\ \E o \in Held : is_O(o) /\ Len(o.operands) >= 3

(***************************************************************************)
(* hsm.util.oop.make_factory_constructor called from two threads.  regs[t] *)
(* is thread t: its position in __new__, its local names memo,             *)
(* instance_key and instance, and the number of calls it has made.         *)
(* tables holds the class attribute __factory_constructor_memo__ (0 for    *)
(* None), the entries of every WeakValueDictionary made, the owner of the  *)
(* RLock (0 when free) and the number of instances allocated.  A step is   *)
(* what runs without the interpreter switching threads: getattr with the   *)
(* test that follows, setattr, entering the with block, the try statement, *)
(* leaving the with block.                                                 *)
(***************************************************************************)
MaxCalls == 2
Threads == 1..2
ThreadKeys == {"a", "b"}

\* The dictionaries that can exist: each thread makes at most one.
Memos == Threads

NoEntries == [m \in Memos |-> [key \in ThreadKeys |-> 0]]

Idle == [pc |-> "idle", memo |-> 0, key |-> "a", instance |-> 0, calls |-> 0]

\* The instances a thread holds a strong reference to.
held_instances(threads) == {threads[t].instance : t \in Threads} \ {0}

\* WeakValueDictionary: an entry lasts as long as its value is referenced.
weak_entries(entries, threads) ==
    [m \in Memos |-> [key \in ThreadKeys |->
        IF entries[m][key] \in held_instances(threads) THEN entries[m][key] ELSE 0]]

ThreadInit ==
    /\ regs = [t \in Threads |-> Idle]
    /\ last = NoCall
    /\ tables = [memo |-> 0, entries |-> NoEntries, mutex |-> 0, made |-> 0]

\* memo = getattr(cls, FC_MEMO_ATTR, None); if memo is None:
\*     memo = weakref.WeakValueDictionary()
ThreadGetMemo(t, key) ==
    /\ regs[t].pc = "idle"
    /\ regs[t].calls < MaxCalls
    /\ regs' = [regs EXCEPT ![t] =
                   [pc |-> IF tables.memo = 0 THEN "setattr" ELSE "enter",
                    memo |-> IF tables.memo = 0 THEN t ELSE tables.memo,
                    key |-> key, instance |-> 0, calls |-> @.calls + 1]]
    /\ UNCHANGED <<last, tables>>

\* setattr(cls, FC_MEMO_ATTR, memo)
ThreadSetMemo(t) ==
    /\ regs[t].pc = "setattr"
    /\ tables' = [tables EXCEPT !.memo = regs[t].memo]
    /\ regs' = [regs EXCEPT ![t].pc = "enter"]
    /\ UNCHANGED last

\* with mutex:
ThreadAcquire(t) ==
    /\ regs[t].pc = "enter"
    /\ tables.mutex = 0
    /\ tables' = [tables EXCEPT !.mutex = t]
    /\ regs' = [regs EXCEPT ![t].pc = "try"]
    /\ UNCHANGED last

\* try: instance = memo[instance_key]
\* except KeyError: instance = new(cls); memo[instance_key] = instance
ThreadLookup(t) ==
    LET found == tables.entries[regs[t].memo][regs[t].key]
        fresh == tables.made + 1
    IN  /\ regs[t].pc = "try"
        /\ IF found # 0
           THEN /\ regs' = [regs EXCEPT ![t].instance = found, ![t].pc = "exit"]
                /\ UNCHANGED tables
           ELSE /\ regs' = [regs EXCEPT ![t].instance = fresh, ![t].pc = "exit"]
                /\ tables' = [tables EXCEPT
                                  !.entries[regs[t].memo][regs[t].key] = fresh,
                                  !.made = fresh]
        /\ UNCHANGED last

\* the end of the with block; return instance
ThreadReturn(t) ==
    /\ regs[t].pc = "exit"
    /\ tables' = [tables EXCEPT !.mutex = 0]
    /\ regs' = [regs EXCEPT ![t].pc = "returned"]
    /\ UNCHANGED last

\* The caller drops the instance it was given.
ThreadDrop(t) ==
    /\ regs[t].pc = "returned"
    /\ regs' = [regs EXCEPT ![t].pc = "idle", ![t].instance = 0]
    /\ tables' = [tables EXCEPT !.entries = weak_entries(@, regs')]
    /\ UNCHANGED last

NextThreads ==
    \/ \E t \in Threads, key \in ThreadKeys : ThreadGetMemo(t, key)
    \/ \E t \in Threads : ThreadSetMemo(t)
    \/ \E t \in Threads : ThreadAcquire(t)
    \/ \E t \in Threads : ThreadLookup(t)
    \/ \E t \in Threads : ThreadReturn(t)
    \/ \E t \in Threads : ThreadDrop(t)

SpecThreads == ThreadInit /\ [][NextThreads]_vars

\* C28: when two threads construct instances of one factory-constructor
\* class concurrently, the first constructions included, two threads that
\* hold instances for the same key hold the same instance, and no instance
\* is stored in a memo table other than the one the class uses.
C28_ThreadsShareOneInstance ==
    /\ \A t \in Threads, u \in Threads :
           (/\ regs[t].instance # 0
            /\ regs[u].instance # 0
            /\ regs[t].key = regs[u].key) => regs[t].instance = regs[u].instance
    /\ \A m \in Memos, key \in ThreadKeys :
           tables.entries[m][key] # 0 => m = tables.memo

\* The atoms of a node, left to right.
RECURSIVE Leaves(_)
RECURSIVE LeavesOf(_, _)
LeavesOf(s, i) == IF i > Len(s) THEN <<>> ELSE Leaves(s[i]) \o LeavesOf(s, i + 1)
Leaves(o) == IF is_A(o) THEN <<o>> ELSE LeavesOf(o.operands, 1)

\* A side of a binary call as it enters the result: whole, or flattened
\* into its operands.
Entries(o) == IF is_A(o) THEN {<<o>>} ELSE {<<o>>, o.operands}

ValueTokens(tokens) ==
    LET IsValue(token) == token \in TreeValues
    IN  SelectSeq(tokens, IsValue)

\* The values named by the renderings of operands[i..], one after another.
RECURSIVE OperandValueTokens(_, _)
OperandValueTokens(operands, i) ==
    IF i > Len(operands) THEN <<>>
    ELSE ValueTokens(repr(operands[i], FALSE)) \o OperandValueTokens(operands, i + 1)

\* C30: the rendering of a node contains the rendering of each of its
\* operands exactly once and in operand order, also when the node has more
\* operands than its template has placeholders: an addition over (x, y, z)
\* renders "x + y + z", never a string that omits an operand.  Stated for
\* the nodes in which every operation has an operand for each placeholder.
C30_RenderingShowsEveryOperand ==
    \A o \in Held :
        (/\ IsOperation(o)
         /\ \A n \in Subnodes(o) : IsOperation(n) => Len(n.operands) >= 2) =>
            /\ repr(o, FALSE) # IndexError
            /\ ValueTokens(repr(o, FALSE)) = OperandValueTokens(o.operands, 1)

====
